---- MODULE Spec2Model ----
(***************************************************************************)
(* A model of git_diff_detector.py: the manifest classifier, the           *)
(* dependency parser, the change analyzer and the two renderers of main(). *)
(* Python strings are sequences of one-character strings, so that          *)
(* endswith, startswith, split and strip are computed on characters.       *)
(***************************************************************************)
EXTENDS Integers, Sequences, FiniteSets, TLC

VARIABLES pc, table, raised, path, manifest, language, filename, content, deps,
          argv, args, output_json, target_branch, base_branch, exit_code,
          repo, diff_output, changed_files, changes_by_language, result, stdout

\* --------------------------------------------------------------- bounds
\* The longest line-oriented content drawn as an input of parse_dependencies.
MaxLen == 5

\* The number of distinct dependency names the structured documents draw from.
MaxNames == 2

\* The most lines the name-status output of a run has.
MaxLines == 2

\* The most arguments main() is started with.
MaxArgs == 3

\* ------------------------------------------------------- Python strings
\* str.endswith(suffix)
EndsWith(s, suffix) ==
  /\ Len(suffix) <= Len(s)
  /\ SubSeq(s, Len(s) - Len(suffix) + 1, Len(s)) = suffix

\* str.startswith(prefix)
StartsWith(s, prefix) ==
  /\ Len(prefix) <= Len(s)
  /\ SubSeq(s, 1, Len(prefix)) = prefix

\* sep occurs in s at index i
OccursAt(s, sep, i) ==
  /\ i + Len(sep) - 1 <= Len(s)
  /\ SubSeq(s, i, i + Len(sep) - 1) = sep

\* str.find(sep) + 1: the index of the leftmost occurrence, 0 when there is none
Find(s, sep) ==
  IF \E i \in 1..Len(s) : OccursAt(s, sep, i)
  THEN CHOOSE i \in 1..Len(s) :
         /\ OccursAt(s, sep, i)
         /\ \A j \in 1..(i - 1) : ~OccursAt(s, sep, j)
  ELSE 0

\* s.split(sep)[0]
SplitHead(s, sep) ==
  IF Find(s, sep) = 0 THEN s ELSE SubSeq(s, 1, Find(s, sep) - 1)

\* s.split(sep), for a one-character sep
RECURSIVE Split(_, _)
Split(s, sep) ==
  IF Find(s, <<sep>>) = 0
  THEN <<s>>
  ELSE <<SubSeq(s, 1, Find(s, <<sep>>) - 1)>>
         \o Split(SubSeq(s, Find(s, <<sep>>) + 1, Len(s)), sep)

\* The characters str.strip() removes.
Whitespace == {" ", "\t", "\n", "\r"}

RECURSIVE LStrip(_)
LStrip(s) ==
  IF s # <<>> /\ Head(s) \in Whitespace THEN LStrip(Tail(s)) ELSE s

RECURSIVE RStrip(_)
RStrip(s) ==
  IF s # <<>> /\ s[Len(s)] \in Whitespace
  THEN RStrip(SubSeq(s, 1, Len(s) - 1))
  ELSE s

\* str.strip()
Strip(s) == RStrip(LStrip(s))

\* ord(c), for the printable ASCII characters and the whitespace escapes
Ord ==
    " " :> 32 @@ "!" :> 33 @@ "\"" :> 34 @@ "#" :> 35 @@ "$" :> 36 @@ "%" :> 37 @@
    "&" :> 38 @@ "'" :> 39 @@ "(" :> 40 @@ ")" :> 41 @@ "*" :> 42 @@ "+" :> 43 @@
    "," :> 44 @@ "-" :> 45 @@ "." :> 46 @@ "/" :> 47 @@ "0" :> 48 @@ "1" :> 49 @@
    "2" :> 50 @@ "3" :> 51 @@ "4" :> 52 @@ "5" :> 53 @@ "6" :> 54 @@ "7" :> 55 @@
    "8" :> 56 @@ "9" :> 57 @@ ":" :> 58 @@ ";" :> 59 @@ "<" :> 60 @@ "=" :> 61 @@
    ">" :> 62 @@ "?" :> 63 @@ "@" :> 64 @@ "A" :> 65 @@ "B" :> 66 @@ "C" :> 67 @@
    "D" :> 68 @@ "E" :> 69 @@ "F" :> 70 @@ "G" :> 71 @@ "H" :> 72 @@ "I" :> 73 @@
    "J" :> 74 @@ "K" :> 75 @@ "L" :> 76 @@ "M" :> 77 @@ "N" :> 78 @@ "O" :> 79 @@
    "P" :> 80 @@ "Q" :> 81 @@ "R" :> 82 @@ "S" :> 83 @@ "T" :> 84 @@ "U" :> 85 @@
    "V" :> 86 @@ "W" :> 87 @@ "X" :> 88 @@ "Y" :> 89 @@ "Z" :> 90 @@ "[" :> 91 @@
    "\\" :> 92 @@ "]" :> 93 @@ "^" :> 94 @@ "_" :> 95 @@ "a" :> 97 @@
    "b" :> 98 @@ "c" :> 99 @@ "d" :> 100 @@ "e" :> 101 @@ "f" :> 102 @@ "g" :> 103 @@
    "h" :> 104 @@ "i" :> 105 @@ "j" :> 106 @@ "k" :> 107 @@ "l" :> 108 @@ "m" :> 109 @@
    "n" :> 110 @@ "o" :> 111 @@ "p" :> 112 @@ "q" :> 113 @@ "r" :> 114 @@ "s" :> 115 @@
    "t" :> 116 @@ "u" :> 117 @@ "v" :> 118 @@ "w" :> 119 @@ "x" :> 120 @@ "y" :> 121 @@
    "z" :> 122 @@ "{" :> 123 @@ "|" :> 124 @@ "}" :> 125 @@ "~" :> 126 @@
    "\t" :> 9 @@ "\n" :> 10 @@ "\r" :> 13

\* Python's order on str: lexicographic by code point
RECURSIVE StrLess(_, _)
StrLess(a, b) ==
  IF b = <<>> THEN FALSE
  ELSE IF a = <<>> THEN TRUE
  ELSE IF Head(a) # Head(b) THEN Ord[Head(a)] < Ord[Head(b)]
  ELSE StrLess(Tail(a), Tail(b))

\* sorted(S) of a set of str
RECURSIVE Sorted(_)
Sorted(S) ==
  IF S = {} THEN <<>>
  ELSE LET m == CHOOSE x \in S : \A y \in S \ {x} : StrLess(x, y)
       IN  <<m>> \o Sorted(S \ {m})

\* None, where Optional[str] is a language tag: no tag is the empty string
None == <<>>

\* ------------------------------------------------- manifest classifier
\* MANIFEST_PATTERNS as written in the source; dict order is insertion order
MANIFEST_PATTERNS ==
  <<
    [lang |-> <<"p","y","t","h","o","n">>,
     patterns |-> << <<"r","e","q","u","i","r","e","m","e","n","t","s",".","t","x","t">>,
                     <<"P","i","p","f","i","l","e">>,
                     <<"P","i","p","f","i","l","e",".","l","o","c","k">>,
                     <<"p","y","p","r","o","j","e","c","t",".","t","o","m","l">> >>],
    [lang |-> <<"j","a","v","a","s","c","r","i","p","t">>,
     patterns |-> << <<"p","a","c","k","a","g","e",".","j","s","o","n">>,
                     <<"p","a","c","k","a","g","e","-","l","o","c","k",".","j","s","o","n">>,
                     <<"y","a","r","n",".","l","o","c","k">>,
                     <<"p","n","p","m","-","l","o","c","k",".","y","a","m","l">> >>],
    [lang |-> <<"j","a","v","a">>,
     patterns |-> << <<"p","o","m",".","x","m","l">>,
                     <<"b","u","i","l","d",".","g","r","a","d","l","e">>,
                     <<"b","u","i","l","d",".","g","r","a","d","l","e",".","k","t","s">> >>],
    [lang |-> <<"c","s","h","a","r","p">>,
     patterns |-> << <<".","c","s","p","r","o","j">>,
                     <<"p","a","c","k","a","g","e","s",".","c","o","n","f","i","g">> >>],
    [lang |-> <<"p","h","p">>,
     patterns |-> << <<"c","o","m","p","o","s","e","r",".","j","s","o","n">>,
                     <<"c","o","m","p","o","s","e","r",".","l","o","c","k">> >>],
    [lang |-> <<"c","p","p">>,
     patterns |-> << <<"c","o","n","a","n","f","i","l","e",".","t","x","t">>,
                     <<"v","c","p","k","g",".","j","s","o","n">>,
                     <<"C","M","a","k","e","L","i","s","t","s",".","t","x","t">> >>],
    [lang |-> <<"g","o">>,
     patterns |-> << <<"g","o",".","m","o","d">>,
                     <<"g","o",".","s","u","m">> >>],
    [lang |-> <<"r","u","b","y">>,
     patterns |-> << <<"G","e","m","f","i","l","e">>,
                     <<"G","e","m","f","i","l","e",".","l","o","c","k">> >>],
    [lang |-> <<"k","o","t","l","i","n">>,
     patterns |-> << <<"b","u","i","l","d",".","g","r","a","d","l","e">>,
                     <<"b","u","i","l","d",".","g","r","a","d","l","e",".","k","t","s">>,
                     <<"p","o","m",".","x","m","l">> >>],
    [lang |-> <<"s","w","i","f","t">>,
     patterns |-> << <<"P","a","c","k","a","g","e",".","s","w","i","f","t">>,
                     <<"P","o","d","f","i","l","e">>,
                     <<"P","o","d","f","i","l","e",".","l","o","c","k">> >>],
    [lang |-> <<"r","u","s","t">>,
     patterns |-> << <<"C","a","r","g","o",".","t","o","m","l">>,
                     <<"C","a","r","g","o",".","l","o","c","k">> >>]
  >>

Range(s) == {s[i] : i \in DOMAIN s}

\* filename.endswith(pattern) for some pattern of the entry
EntryMatches(entry, f) ==
  \E j \in DOMAIN entry.patterns : EndsWith(f, entry.patterns[j])

\* is_manifest_file: any() over every pattern of every language
is_manifest_file(f) ==
  \E i \in DOMAIN table : EntryMatches(table[i], f)

\* get_language_for_file's loop, from entry i of the table on
RECURSIVE LanguageFrom(_, _)
LanguageFrom(f, i) ==
  IF i > Len(table) THEN None
  ELSE IF EntryMatches(table[i], f) THEN table[i].lang
  ELSE LanguageFrom(f, i + 1)

LanguageFromLast(f) ==
  IF \E i \in DOMAIN table : EntryMatches(table[i], f)
  THEN table[CHOOSE i \in DOMAIN table :
               /\ EntryMatches(table[i], f)
               /\ \A k \in DOMAIN table : EntryMatches(table[k], f) => k <= i].lang
  ELSE None

get_language_for_file(f) == LanguageFrom(f, 1)

\* ---------------------------------------------------- dependency parser
\* What json.loads makes of a text that is not a JSON document.
Invalid == [k |-> "invalid"]

\* get_file_content's None: the path is absent on the branch
Absent == [present |-> FALSE, text |-> <<>>, json |-> Invalid]

\* A file content: its text, and the value json.loads yields for that text.
Text(s) == [present |-> TRUE, text |-> s, json |-> Invalid]

DotJson == <<".","j","s","o","n">>
DotTxt == <<".","t","x","t">>

\* The five operators, in the order line 99 splits on them.
Operators == << <<"=","=">>, <<">","=">>, <<"<","=">>, <<">">>, <<"<">> >>

PackageOfNoLess(line) ==
  Strip(SplitHead(SplitHead(SplitHead(SplitHead(line,
          Operators[1]), Operators[2]), Operators[3]), Operators[4]))

\* line 99: the chained split(op)[0], then strip()
PackageOf(line) ==
  Strip(SplitHead(SplitHead(SplitHead(SplitHead(SplitHead(line,
          Operators[1]), Operators[2]), Operators[3]), Operators[4]),
          Operators[5]))

\* lines 95-102: the loop over content.split('\n'), from line i on
RECURSIVE TxtDepsFrom(_, _, _)
TxtDepsFrom(lines, i, acc) ==
  IF i > Len(lines) THEN acc
  ELSE LET line == Strip(lines[i])
       IN  IF line # <<>> /\ ~StartsWith(line, <<"#">>) /\ PackageOf(line) # <<>>
           THEN TxtDepsFrom(lines, i + 1, acc \cup {PackageOf(line)})
           ELSE TxtDepsFrom(lines, i + 1, acc)

\* The .txt branch: the set it returns, and the exception it raised ("none").
ParseTxt(text) ==
  [deps |-> TxtDepsFrom(Split(text, "\n"), 1, {}), exc |-> "none"]

\* JSON values as json.loads builds them: None, a number, a str, a list, a dict.
JNull == [k |-> "null"]
JNum == [k |-> "num"]
JStr(s) == [k |-> "str", s |-> s]
JList(items) == [k |-> "list", items |-> items]
JMap(m) == [k |-> "map", m |-> m]

\* The four sections, in the order lines 85-92 read them.
SectionKeys ==
  << <<"d","e","p","e","n","d","e","n","c","i","e","s">>,
     <<"d","e","v","D","e","p","e","n","d","e","n","c","i","e","s">>,
     <<"r","e","q","u","i","r","e">>,
     <<"r","e","q","u","i","r","e","-","d","e","v">> >>

\* Python's `key in data`, for the containers that support it
Contains(data, key) ==
  CASE data.k = "map" -> key \in DOMAIN data.m
    [] data.k = "list" -> \E i \in DOMAIN data.items : data.items[i] = JStr(key)
    [] data.k = "str" -> Find(data.s, key) # 0

\* lines 84-93: the four `if key in data: deps.update(data[key].keys())`, from
\* section i on; acc is the local deps, exc the exception that ended the branch
RECURSIVE JsonDepsFrom(_, _, _)
JsonDepsFrom(data, i, acc) ==
  IF i > Len(SectionKeys) THEN [deps |-> acc, exc |-> "none"]
  ELSE IF data.k \notin {"map", "list", "str"}
       THEN [deps |-> acc, exc |-> "TypeError"]
  ELSE IF ~Contains(data, SectionKeys[i])
       THEN JsonDepsFrom(data, i + 1, acc)
  ELSE IF data.k # "map"
       THEN [deps |-> acc, exc |-> "TypeError"]
  ELSE IF data.m[SectionKeys[i]].k # "map"
       THEN [deps |-> acc, exc |-> "AttributeError"]
  ELSE JsonDepsFrom(data, i + 1, acc \cup DOMAIN data.m[SectionKeys[i]].m)

\* The .json branch: json.loads, then the four sections.
ParseJson(c) ==
  IF c.json = Invalid
  THEN [deps |-> {}, exc |-> "JSONDecodeError"]
  ELSE JsonDepsFrom(c.json, 1, {})

CatchKeepsLocal(outcome) ==
  [deps |-> outcome.deps, error |-> "none"]

\* lines 103-105: `except Exception` prints the diagnostic and falls through to
\* `return set()`; error is the exception that leaves parse_dependencies
Catch(outcome) ==
  IF outcome.exc = "none"
  THEN [deps |-> outcome.deps, error |-> "none"]
  ELSE [deps |-> {}, error |-> "none"]

\* parse_dependencies(filename, content)
parse_dependencies(f, c) ==
  IF ~c.present \/ c.text = <<>> THEN [deps |-> {}, error |-> "none"]
  ELSE IF EndsWith(f, DotJson) THEN Catch(ParseJson(c))
  ELSE IF EndsWith(f, DotTxt) THEN Catch(ParseTxt(c.text))
  ELSE [deps |-> {}, error |-> "none"]

\* json.dumps(v, separators=(',', ':')): the text of a document
RECURSIVE Join(_, _)
Join(parts, sep) ==
  IF parts = <<>> THEN <<>>
  ELSE IF Len(parts) = 1 THEN parts[1]
  ELSE parts[1] \o sep \o Join(Tail(parts), sep)

Quoted(s) == <<"\"">> \o s \o <<"\"">>

RECURSIVE Dumps(_)
Dumps(v) ==
  CASE v.k = "null" -> <<"n","u","l","l">>
    [] v.k = "num" -> <<"1">>
    [] v.k = "str" -> Quoted(v.s)
    [] v.k = "list" ->
         <<"[">> \o Join([i \in DOMAIN v.items |-> Dumps(v.items[i])], <<",">>) \o <<"]">>
    [] v.k = "map" ->
         LET keys == Sorted(DOMAIN v.m)
         IN  <<"{">>
               \o Join([i \in DOMAIN keys |->
                          Quoted(keys[i]) \o <<":">> \o Dumps(v.m[keys[i]])], <<",">>)
               \o <<"}">>

\* The content of a file that holds the document v.
Json(v) == [present |-> TRUE, text |-> Dumps(v), json |-> v]

\* --------------------------------------------------------------- dicts
\* A Python dict, in insertion order: a sequence of [key, val] entries.
DictKeys(d) == [i \in DOMAIN d |-> d[i].key]

DictHas(d, key) == \E i \in DOMAIN d : d[i].key = key

DictGet(d, key) == d[CHOOSE i \in DOMAIN d : d[i].key = key].val

\* d[key] = val: a new key goes last, an old key keeps its place
DictSet(d, key, val) ==
  IF DictHas(d, key)
  THEN [i \in DOMAIN d |-> IF d[i].key = key THEN [key |-> key, val |-> val] ELSE d[i]]
  ELSE Append(d, [key |-> key, val |-> val])

\* ----------------------------------------------------- get_git_diff
StatusA == <<"A">>
StatusD == <<"D">>
StatusM == <<"M">>
StatusR == <<"R">>

RecordOfRawStatus(parts) ==
  IF StartsWith(parts[1], StatusR)
  THEN [filename |-> parts[3], status |-> parts[1],
        language |-> get_language_for_file(parts[3]), old_filename |-> parts[2]]
  ELSE [filename |-> parts[2], status |-> parts[1],
        language |-> get_language_for_file(parts[2])]

\* lines 126-131 and 135-139: the record appended for a kept line
RecordOf(parts) ==
  IF StartsWith(parts[1], StatusR)
  THEN [filename |-> parts[3], status |-> StatusR,
        language |-> get_language_for_file(parts[3]), old_filename |-> parts[2]]
  ELSE [filename |-> parts[2], status |-> parts[1],
        language |-> get_language_for_file(parts[2])]

\* lines 125 and 134: whether the line is kept
Kept(parts) ==
  IF StartsWith(parts[1], StatusR)
  THEN is_manifest_file(parts[2]) \/ is_manifest_file(parts[3])
  ELSE is_manifest_file(parts[2])

\* lines 116-140: the loop over the lines of the name-status output, each line
\* given as its line.split("\t")
RECURSIVE ChangedFiles(_)
ChangedFiles(lines) ==
  IF lines = <<>> THEN <<>>
  ELSE IF Kept(Head(lines))
       THEN <<RecordOf(Head(lines))>> \o ChangedFiles(Tail(lines))
       ELSE ChangedFiles(Tail(lines))

\* ------------------------------------------------- analyze_dependencies
\* get_file_content: `git show branch:filename` in the repository snapshot r;
\* None when the command fails
get_file_content(r, f, branch) ==
  IF branch \in DOMAIN r /\ f \in DOMAIN r[branch] THEN r[branch][f] ELSE Absent

\* lines 153-161: status A
AddedDelta(r, file_info, target) ==
  LET f == file_info.filename
  IN  [filename |-> f, status |-> file_info.status,
       new_deps |-> parse_dependencies(f, get_file_content(r, f, target)).deps,
       removed_deps |-> {}]

\* lines 162-170: status D
DeletedDelta(r, file_info, base) ==
  LET f == file_info.filename
  IN  [filename |-> f, status |-> file_info.status,
       new_deps |-> {},
       removed_deps |-> parse_dependencies(f, get_file_content(r, f, base)).deps]

ModifiedDeltaSwapped(r, file_info, base, target) ==
  LET f == file_info.filename
      base_deps == parse_dependencies(f, get_file_content(r, f, target)).deps
      target_deps == parse_dependencies(f, get_file_content(r, f, base)).deps
  IN  [filename |-> f, status |-> file_info.status,
       new_deps |-> target_deps \ base_deps,
       removed_deps |-> base_deps \ target_deps]

\* lines 171-183: status M
ModifiedDelta(r, file_info, base, target) ==
  LET f == file_info.filename
      base_deps == parse_dependencies(f, get_file_content(r, f, base)).deps
      target_deps == parse_dependencies(f, get_file_content(r, f, target)).deps
  IN  [filename |-> f, status |-> file_info.status,
       new_deps |-> target_deps \ base_deps,
       removed_deps |-> base_deps \ target_deps]

\* lines 184-198: status R
RenamedDelta(r, file_info, base, target) ==
  LET f == file_info.filename
      old == file_info.old_filename
      base_deps == parse_dependencies(old, get_file_content(r, old, base)).deps
      target_deps == parse_dependencies(f, get_file_content(r, f, target)).deps
  IN  [filename |-> f, status |-> file_info.status, old_filename |-> old,
       new_deps |-> target_deps \ base_deps,
       removed_deps |-> base_deps \ target_deps]

\* lines 153-198: the deltas one changed-file record appends: none, when its
\* status is none of A, D, M, R
DeltaOf(r, file_info, base, target) ==
  IF file_info.status = StatusA
  THEN << AddedDelta(r, file_info, target) >>
  ELSE IF file_info.status = StatusD
  THEN << DeletedDelta(r, file_info, base) >>
  ELSE IF file_info.status = StatusM
  THEN << ModifiedDelta(r, file_info, base, target) >>
  ELSE IF file_info.status = StatusR
  THEN << RenamedDelta(r, file_info, base, target) >>
  ELSE <<>>

\* lines 147-199: the loop over changed_files; cbl is changes_by_language
RECURSIVE analyze_dependencies(_, _, _, _, _)
analyze_dependencies(r, files, base, target, cbl) ==
  IF files = <<>> THEN cbl
  ELSE LET lang == Head(files).language
           bucket == IF DictHas(cbl, lang) THEN DictGet(cbl, lang) ELSE <<>>
       IN  analyze_dependencies(r, Tail(files), base, target,
             DictSet(cbl, lang,
                     bucket \o DeltaOf(r, Head(files), base, target)))

\* ------------------------------------------------------------ reporter
\* lines 229-233: lang_dict of one language
RECURSIVE LangDict(_, _)
LangDict(files, acc) ==
  IF files = <<>> THEN acc
  ELSE LangDict(Tail(files),
         DictSet(acc, Head(files).filename,
                 [new_deps |-> Sorted(Head(files).new_deps),
                  removed_deps |-> Sorted(Head(files).removed_deps)]))

\* lines 226-235: result, built over changes_by_language.items()
RECURSIVE JsonResult(_, _)
JsonResult(cbl, acc) ==
  IF cbl = <<>> THEN acc
  ELSE LET lang_dict == LangDict(Head(cbl).val, <<>>)
       IN  JsonResult(Tail(cbl),
             IF lang_dict # <<>> THEN DictSet(acc, Head(cbl).key, lang_dict) ELSE acc)

\* str.upper(), on the letters of the language tags
UpperOf ==
    "a" :> "A" @@ "b" :> "B" @@ "c" :> "C" @@ "d" :> "D" @@ "e" :> "E" @@ "f" :> "F" @@
    "g" :> "G" @@ "h" :> "H" @@ "i" :> "I" @@ "j" :> "J" @@ "k" :> "K" @@ "l" :> "L" @@
    "m" :> "M" @@ "n" :> "N" @@ "o" :> "O" @@ "p" :> "P" @@ "q" :> "Q" @@ "r" :> "R" @@
    "s" :> "S" @@ "t" :> "T" @@ "u" :> "U" @@ "v" :> "V" @@ "w" :> "W" @@ "x" :> "X" @@
    "y" :> "Y" @@ "z" :> "Z"

Upper(s) == [i \in DOMAIN s |-> IF s[i] \in DOMAIN UpperOf THEN UpperOf[s[i]] ELSE s[i]]

\* lines 252-259: the lines printed for the names of one file
DepLines(file_info) ==
  (IF file_info.new_deps # {}
   THEN <<[t |-> "new_header"]>>
          \o [i \in 1..Cardinality(file_info.new_deps) |->
                [t |-> "plus", dep |-> Sorted(file_info.new_deps)[i]]]
   ELSE <<>>)
  \o
  (IF file_info.removed_deps # {}
   THEN <<[t |-> "removed_header"]>>
          \o [i \in 1..Cardinality(file_info.removed_deps) |->
                [t |-> "minus", dep |-> Sorted(file_info.removed_deps)[i]]]
   ELSE <<>>)

\* lines 244-259: the lines printed for the files of one language
RECURSIVE FileLines(_)
FileLines(files) ==
  IF files = <<>> THEN <<>>
  ELSE LET file_info == Head(files)
       IN  << IF file_info.status = StatusR
              THEN [t |-> "file", status |-> file_info.status,
                    filename |-> file_info.filename,
                    old_filename |-> file_info.old_filename]
              ELSE [t |-> "file", status |-> file_info.status,
                    filename |-> file_info.filename] >>
             \o DepLines(file_info) \o FileLines(Tail(files))

TextOrderUnsorted(cbl) == DictKeys(cbl)

\* line 240: the order sorted(changes_by_language.items()) visits the languages
TextOrder(cbl) == Sorted(Range(DictKeys(cbl)))

\* lines 240-259: the loop over the languages in the order langs; the lines
\* printed, and the exception that ended the loop ("none")
RECURSIVE LanguageLines(_, _, _)
LanguageLines(cbl, langs, acc) ==
  IF langs = <<>> THEN [lines |-> acc, exc |-> "none"]
  ELSE IF DictGet(cbl, Head(langs)) = <<>>
       THEN LanguageLines(cbl, Tail(langs), acc)
  ELSE IF Head(langs) = None
       THEN [lines |-> acc, exc |-> "AttributeError"]
  ELSE LanguageLines(cbl, Tail(langs),
         acc \o <<[t |-> "lang", text |-> Upper(Head(langs))]>>
             \o FileLines(DictGet(cbl, Head(langs))))

\* lines 238-259: text mode. sorted() compares the keys, and raises TypeError
\* when None is one of two or more keys.
RenderTextLines(cbl) ==
  LET header == <<[t |-> "title"], [t |-> "rule"]>>
  IN  IF Len(cbl) > 1 /\ DictHas(cbl, None)
      THEN [lines |-> header, exc |-> "TypeError"]
      ELSE LanguageLines(cbl, TextOrder(cbl), header)

\* ------------------------------------------------------------- inputs
\* Directory prefixes and base names the classified paths are built from.
Prefixes == { <<>>, <<"o","l","d","_">>, <<"s","r","c","/">> }

OtherNames ==
  { <<"n","o","t","e","s",".","m","d">>, <<"d","e","p","s",".","i","n">>, <<"a","p","p",".","c","s","p","r","o","j">>,
    <<"p","o","m",".","x","m","l",".","b","a","k">>, <<"G","e","m","f","i","l","e",".","t","x","t">>, <<"d","a","t","a",".","j","s","o","n">> }

AllPatterns ==
  UNION { Range(MANIFEST_PATTERNS[i].patterns) : i \in DOMAIN MANIFEST_PATTERNS }

Paths == { pre \o base : pre \in Prefixes, base \in AllPatterns \cup OtherNames }

\* The characters line-oriented contents are drawn from.
TextAlphabet == {"a", "=", ">", "<", "#", " ", "\n"}

Strings(alphabet, n) == UNION { [1..m -> alphabet] : m \in 0..n }

TextContents == { Text(s) : s \in Strings(TextAlphabet, MaxLen) }

\* Dependency names of the structured documents.
NamePool == << <<"a">>, <<"b">>, <<"c">>, <<"d">> >>
Names == { NamePool[i] : i \in 1..MaxNames }

SectionValues ==
  { JMap([n \in S |-> JStr(<<"1">>)]) : S \in SUBSET Names }
    \cup { JList(<< JStr(<<"a">>) >>), JStr(<<"a">>), JNull }

TopLevelValues ==
  { JMap(m) : m \in UNION { [S -> SectionValues] : S \in SUBSET Range(SectionKeys) } }
    \cup { JNull, JNum, JStr(<<"x">>), JStr(SectionKeys[4]),
           JList(<<>>), JList(<< JStr(SectionKeys[1]) >>) }

JsonContents ==
  { Json(v) : v \in TopLevelValues } \cup { Absent, Text(<<>>), Text(<<"{", "a">>) }


\* The argument lists main() is started with.
ArgTokens == {"--json", "feature", "main", "dev"}
ArgLists == Strings(ArgTokens, MaxArgs)

\* The argument lists of the runs that are followed to their end: text mode
\* against the current branch, and JSON mode with both branches given.
RunArgLists == { <<"feature">>, <<"--json", "feature", "main">> }

\* The paths of the repository snapshots.
Req == <<"r","e","q","u","i","r","e","m","e","n","t","s",".","t","x","t">>
OldReq == <<"o","l","d","_","r","e","q","u","i","r","e","m","e","n","t","s",".","t","x","t">>
Pkg == <<"p","a","c","k","a","g","e",".","j","s","o","n">>
Notes == <<"n","o","t","e","s",".","m","d">>

StatusT == <<"T">>
C100 == <<"C", "1", "0", "0">>
R100 == <<"R", "1", "0", "0">>
R075 == <<"R", "0", "7", "5">>

\* The lines `git diff --name-status` may print, each as its split("\t").
DiffLines ==
  { <<s, f>> : s \in {StatusA, StatusM, StatusD, StatusT}, f \in {Req, Pkg} }
    \cup { <<StatusM, Notes>>, <<StatusA, Notes>>, <<StatusD, OldReq>>,
           <<C100, Req, OldReq>>,
           <<R100, OldReq, Req>>, <<R100, Notes, Req>>,
           <<R075, Req, Notes>>, <<R100, Pkg, Req>> }

DiffOutputs == Strings(DiffLines, MaxLines)

\* Contents of the snapshots.
ReqV1 == Text(<<"a","=","=","1">>)
ReqV2 == Text(<<"a",">","=","2">>)
ReqV2B == Text(<<"a","=","=","2","\n","b","=","=","1">>)
ReqComments == Text(<<"#"," ","a","\n","\n"," ","b"," ","\n">>)
DepsOf(names, version) == JMap([n \in names |-> JStr(version)])
PkgA == Json(JMap((SectionKeys[1] :> DepsOf({<<"a">>}, <<"1">>))))
PkgA2 == Json(JMap((SectionKeys[1] :> DepsOf({<<"a">>}, <<"2">>))))
PkgAB ==
  Json(JMap((SectionKeys[1] :> DepsOf({<<"a">>}, <<"1">>))
              @@ (SectionKeys[2] :> DepsOf({<<"b">>}, <<"1">>))))
PkgBadSection ==
  Json(JMap((SectionKeys[1] :> DepsOf({<<"a">>}, <<"1">>))
              @@ (SectionKeys[2] :> JList(<< JStr(<<"b">>) >>))))
PkgTruncated == Text(<<"{", "\"", "a">>)

\* A snapshot: branch -> path -> content; a path that is not listed is absent.
Repos ==
  { \* the end-to-end scenario: a version bump and one new name
    [main |-> (Req :> ReqV1) @@ (Pkg :> PkgA),
     feature |-> (Req :> ReqV2B) @@ (Pkg :> PkgAB)],
    \* version-only changes
    [main |-> (Req :> ReqV1) @@ (Pkg :> PkgA),
     feature |-> (Req :> ReqV2) @@ (Pkg :> PkgA2)],
    \* a manifest renamed with its content, from another manifest name and
    \* from a name that is no manifest
    [main |-> (OldReq :> ReqV1) @@ (Notes :> ReqV1) @@ (Pkg :> PkgAB),
     feature |-> (Req :> ReqV1) @@ (Pkg :> PkgA)],
    \* a manifest renamed away, and a document renamed to a line-oriented name
    [main |-> (Req :> ReqV2B) @@ (Pkg :> PkgA),
     feature |-> (Notes :> ReqV1) @@ (Req :> PkgA)],
    \* malformed and empty contents
    [main |-> (Req :> ReqComments) @@ (Pkg :> PkgBadSection),
     feature |-> (Req :> Text(<<>>)) @@ (Pkg :> PkgTruncated)] }

\* What `git rev-parse --abbrev-ref HEAD` may answer; "unknown" when it fails.
CurrentBranches == {"main", "unknown"}

\* ------------------------------------------------------------ actions
classifyVars == <<path, manifest, language>>
parseVars == <<filename, content, deps>>
argVars == <<argv, args, output_json, target_branch, base_branch, exit_code>>
runVars == <<repo, diff_output, changed_files, changes_by_language, result, stdout>>
vars == <<pc, table, raised, classifyVars, parseVars, argVars, runVars>>

\* The values of the variables a specification does not use.
IdleClassify == path = <<>> /\ manifest = FALSE /\ language = None
IdleParse == filename = <<>> /\ content = Absent /\ deps = {}
IdleArgs ==
  /\ argv = <<>> /\ args = <<>> /\ output_json = FALSE
  /\ target_branch = "" /\ base_branch = "" /\ exit_code = 0
IdleRun ==
  /\ repo = [main |-> <<>>, feature |-> <<>>]
  /\ diff_output = <<>> /\ changed_files = <<>>
  /\ changes_by_language = <<>> /\ result = <<>> /\ stdout = <<>>

\* The classifier applied to one path: is_manifest_file, then
\* get_language_for_file, as get_git_diff calls them.
InitClassify ==
  /\ pc = "classify"
  /\ table = MANIFEST_PATTERNS
  /\ raised = "none"
  /\ path \in Paths
  /\ manifest = FALSE
  /\ language = None
  /\ IdleParse /\ IdleArgs /\ IdleRun

IsManifestFile ==
  /\ pc = "classify"
  /\ manifest' = is_manifest_file(path)
  /\ pc' = "tag"
  /\ UNCHANGED <<table, raised, path, language, parseVars, argVars, runVars>>

GetLanguageForFile ==
  /\ pc = "tag"
  /\ language' = get_language_for_file(path)
  /\ pc' = "tagged"
  /\ UNCHANGED <<table, raised, path, manifest, parseVars, argVars, runVars>>

NextClassify == IsManifestFile \/ GetLanguageForFile

SpecClassify == InitClassify /\ [][NextClassify]_vars

\* parse_dependencies applied to one (filename, content).
InitParse(filenames, contents) ==
  /\ pc = "parse"
  /\ table = MANIFEST_PATTERNS
  /\ raised = "none"
  /\ filename \in filenames
  /\ content \in contents
  /\ deps = {}
  /\ IdleClassify /\ IdleArgs /\ IdleRun

ParseDependencies ==
  /\ pc = "parse"
  /\ deps' = parse_dependencies(filename, content).deps
  /\ raised' = parse_dependencies(filename, content).error
  /\ pc' = "parsed"
  /\ UNCHANGED <<table, classifyVars, filename, content, argVars, runVars>>

TxtFilenames == { <<"r","e","q","u","i","r","e","m","e","n","t","s",".","t","x","t">> }
JsonFilenames == { <<"p","a","c","k","a","g","e",".","j","s","o","n">>, <<"c","o","m","p","o","s","e","r",".","j","s","o","n">> }

InitTxt == InitParse(TxtFilenames, TextContents)
SpecTxt == InitTxt /\ [][ParseDependencies]_vars

InitJson == InitParse(JsonFilenames, JsonContents)
SpecJson == InitJson /\ [][ParseDependencies]_vars

\* args.remove('--json'): the list without its first '--json'
RECURSIVE Remove(_, _)
Remove(list, x) ==
  IF list = <<>> THEN <<>>
  ELSE IF Head(list) = x THEN Tail(list)
  ELSE <<Head(list)>> \o Remove(Tail(list), x)

\* main() started with an argument list.
InitMain(lists) ==
  /\ pc = "main"
  /\ table = MANIFEST_PATTERNS
  /\ raised = "none"
  /\ argv \in lists
  /\ args = <<>>
  /\ output_json = FALSE
  /\ target_branch = ""
  /\ base_branch = ""
  /\ exit_code = 0
  /\ repo \in Repos
  /\ diff_output = <<>> /\ changed_files = <<>>
  /\ changes_by_language = <<>> /\ result = <<>> /\ stdout = <<>>
  /\ IdleClassify /\ IdleParse

\* lines 203-216: the flag, the positional list and the two branches;
\* get_current_branch answers current
ParseArgs ==
  /\ pc = "main"
  /\ LET flag == "--json" \in Range(argv)
         positional == IF flag THEN Remove(argv, "--json") ELSE argv
     IN  /\ output_json' = flag
         /\ args' = positional
         /\ IF Len(positional) = 0
            THEN /\ stdout' = <<[t |-> "usage"]>>
                 /\ exit_code' = 1
                 /\ pc' = "exit"
                 /\ UNCHANGED <<target_branch, base_branch>>
            ELSE IF Len(positional) = 1
            THEN /\ target_branch' = positional[1]
                 /\ \E current \in CurrentBranches : base_branch' = current
                 /\ pc' = "diff"
                 /\ UNCHANGED <<stdout, exit_code>>
            ELSE /\ target_branch' = positional[1]
                 /\ base_branch' = positional[2]
                 /\ pc' = "diff"
                 /\ UNCHANGED <<stdout, exit_code>>
  /\ UNCHANGED <<table, raised, classifyVars, parseVars, argv, repo, diff_output,
                 changed_files, changes_by_language, result>>

SpecArgs == InitMain(ArgLists) /\ [][ParseArgs]_vars

\* line 217: get_git_diff. `git diff` fails on a branch the repository does
\* not have, and get_git_diff then returns []; otherwise it prints some lines.
GetGitDiff ==
  /\ pc = "diff"
  /\ IF {base_branch, target_branch} \subseteq DOMAIN repo
     THEN \E out \in DiffOutputs :
            /\ diff_output' = out
            /\ changed_files' = ChangedFiles(out)
     ELSE /\ diff_output' = <<>>
          /\ changed_files' = <<>>
  /\ pc' = "check"
  /\ UNCHANGED <<table, raised, classifyVars, parseVars, argVars, repo,
                 changes_by_language, result, stdout>>

\* lines 218-223: nothing changed
ReportNoChanges ==
  /\ pc = "check"
  /\ changed_files = <<>>
  /\ stdout' = <<[t |-> "no_changes"]>>
  /\ pc' = "done"
  /\ UNCHANGED <<table, raised, classifyVars, parseVars, argVars, repo,
                 diff_output, changed_files, changes_by_language, result>>

\* line 224: analyze_dependencies
AnalyzeDependencies ==
  /\ pc = "check"
  /\ changed_files # <<>>
  /\ changes_by_language' =
       analyze_dependencies(repo, changed_files, base_branch, target_branch, <<>>)
  /\ pc' = "render"
  /\ UNCHANGED <<table, raised, classifyVars, parseVars, argVars, repo,
                 diff_output, changed_files, result, stdout>>

\* lines 225-237: JSON mode
RenderJson ==
  /\ pc = "render"
  /\ output_json
  /\ result' = JsonResult(changes_by_language, <<>>)
  /\ stdout' = <<[t |-> "json"]>>
  /\ pc' = "done"
  /\ UNCHANGED <<table, raised, classifyVars, parseVars, argVars, repo,
                 diff_output, changed_files, changes_by_language>>

\* lines 238-259: text mode; an exception nothing catches ends the run
RenderText ==
  /\ pc = "render"
  /\ ~output_json
  /\ stdout' = RenderTextLines(changes_by_language).lines
  /\ raised' = RenderTextLines(changes_by_language).exc
  /\ pc' = IF RenderTextLines(changes_by_language).exc = "none" THEN "done" ELSE "crashed"
  /\ exit_code' = IF RenderTextLines(changes_by_language).exc = "none" THEN 0 ELSE 1
  /\ UNCHANGED <<table, classifyVars, parseVars, argv, args, output_json,
                 target_branch, base_branch, repo, diff_output, changed_files,
                 changes_by_language, result>>

Next ==
  \/ ParseArgs
  \/ GetGitDiff
  \/ ReportNoChanges
  \/ AnalyzeDependencies
  \/ RenderJson
  \/ RenderText

Init == InitMain(RunArgLists)

Spec == Init /\ [][Next]_vars

\* ------------------------------------------------------------- claims
Min(S) == CHOOSE i \in S : \A j \in S : i <= j

\* The index at which the leftmost occurrence of any operator starts (0: none).
Leftmost(line) ==
  LET at == { i \in 1..Len(line) :
                \E k \in DOMAIN Operators : OccursAt(line, Operators[k], i) }
  IN  IF at = {} THEN 0 ELSE Min(at)

\* A trimmed line truncated at its leftmost operator, then trimmed.
TruncatedName(line) ==
  Strip(IF Leftmost(line) = 0 THEN line ELSE SubSeq(line, 1, Leftmost(line) - 1))

\* The names of a line-oriented content, as the specification words them.
NamesByTruncation(text) ==
  { TruncatedName(Strip(l)) :
      l \in { x \in Range(Split(text, "\n")) :
                Strip(x) # <<>> /\ Head(Strip(x)) # "#" } } \ { <<>> }

\* What may follow the operator of a line.
VersionTails == { <<>>, <<"a">>, <<"=">>, <<"=", "a", "a">>, <<" ", ">", "a">> }

\* The contents that differ from text only in the version constraint of its
\* last line: everything after that line's leftmost operator is replaced.
VersionVariants(text) ==
  LET lines == Split(text, "\n")
      last == lines[Len(lines)]
      at == Leftmost(last)
      oplen == IF last[at] = "=" THEN 2 ELSE 1
  IN  IF at = 0 THEN {}
      ELSE { SubSeq(text, 1, Len(text) - Len(last) + at + oplen - 1) \o tl :
               tl \in VersionTails }

\* C6: for a .txt manifest parse_dependencies returns exactly the names got by
\* trimming each line, skipping blank and '#' lines, truncating at the leftmost
\* of the five operators, trimming, and discarding empty names; so contents
\* that differ only in a version constraint parse to the same set.
C6_TxtParseIsLeftmostTruncation ==
  pc = "parsed" =>
    /\ deps = NamesByTruncation(content.text)
    /\ \A v \in VersionVariants(content.text) :
         parse_dependencies(filename, Text(v)).deps = deps

\* A parsed line in which one operator overlaps another (">=="), with a name.
C6_Witness ==
  /\ pc = "parsed"
  /\ Find(content.text, <<">", "=", "=">>) # 0
  /\ deps = { <<"a">> }
  /\ VersionVariants(content.text) # {}

\* A document all of whose present sections are mappings.
WellFormedDoc(c) ==
  /\ c.present
  /\ c.json # Invalid
  /\ c.json.k = "map"
  /\ \A key \in DOMAIN c.json.m \cap Range(SectionKeys) : c.json.m[key].k = "map"

SectionUnion(c) ==
  UNION { DOMAIN c.json.m[key].m : key \in DOMAIN c.json.m \cap Range(SectionKeys) }

\* C7: for a .json manifest parse_dependencies returns the union of the keys of
\* the sections present; a malformed document gives the empty set, never the
\* names of the sections read before the fault, and no error leaves the call.
C7_JsonParseUnionOrEmpty ==
  pc = "parsed" =>
    /\ raised = "none"
    /\ deps = IF WellFormedDoc(content) THEN SectionUnion(content) ELSE {}

\* A document whose first section is a non-empty mapping and whose second
\* section is a list: the fault comes after names were collected.
C7_Witness ==
  /\ pc = "parsed"
  /\ content.json.k = "map"
  /\ {SectionKeys[1], SectionKeys[2]} \subseteq DOMAIN content.json.m
  /\ content.json.m[SectionKeys[1]].k = "map"
  /\ DOMAIN content.json.m[SectionKeys[1]].m # {}
  /\ content.json.m[SectionKeys[2]].k = "list"
  /\ deps = {}

\* The patterns more than one language lists.
SharedPatterns ==
  { q \in AllPatterns :
      Cardinality({ i \in DOMAIN MANIFEST_PATTERNS :
                      q \in Range(MANIFEST_PATTERNS[i].patterns) }) > 1 }

Java == <<"j","a","v","a">>

\* C8: language_for(path) is the first language in table order with a pattern
\* that is a suffix of the path, None exactly when is_manifest(path) is false;
\* is_manifest(path) iff the path ends with a configured pattern; a path that
\* matches a shared pattern is tagged java; the table is never changed.
C8_FirstLanguageInTableOrder ==
  /\ table = MANIFEST_PATTERNS
  /\ pc \in {"tag", "tagged"} =>
       manifest = (\E q \in AllPatterns : EndsWith(path, q))
  /\ pc = "tagged" =>
       LET matching == { i \in DOMAIN MANIFEST_PATTERNS :
                           \E q \in Range(MANIFEST_PATTERNS[i].patterns) :
                             EndsWith(path, q) }
       IN  /\ (language = None) <=> ~manifest
           /\ matching # {} => language = MANIFEST_PATTERNS[Min(matching)].lang
           /\ (\E q \in SharedPatterns : EndsWith(path, q)) => language = Java

\* A path under a directory that ends with a pattern java and kotlin share.
C8_Witness ==
  /\ pc = "tagged"
  /\ Len(path) > 7
  /\ EndsWith(path, <<"p","o","m",".","x","m","l">>)
  /\ manifest
  /\ language = Java

\* The run is past analyze_dependencies.
Analyzed == pc \in {"render", "done", "crashed"} /\ changed_files # <<>>

\* The deltas of every language, as (entry, place) pairs.
DeltaPlaces ==
  UNION { { <<i, j>> : j \in DOMAIN changes_by_language[i].val } :
            i \in DOMAIN changes_by_language }

DeltaAt(pl) == changes_by_language[pl[1]].val[pl[2]]

\* The set parsed from the base-branch content: empty for an Added file.
BeforeDeps(d) ==
  IF d.status = StatusA THEN {}
  ELSE LET f == IF d.status = StatusR THEN d.old_filename ELSE d.filename
       IN  parse_dependencies(f, get_file_content(repo, f, base_branch)).deps

\* The set parsed from the target-branch content: empty for a Deleted file.
AfterDeps(d) ==
  IF d.status = StatusD THEN {}
  ELSE parse_dependencies(d.filename,
                          get_file_content(repo, d.filename, target_branch)).deps

\* C1: every delta has new_deps = after \ before and removed_deps = before \
\* after, so the two are disjoint; an Added file removes nothing and a Deleted
\* file adds nothing.
C1_DeltaIsSetDifference ==
  \A pl \in DeltaPlaces :
    LET d == DeltaAt(pl)
    IN  /\ d.status \in {StatusA, StatusD, StatusM, StatusR}
        /\ d.new_deps = AfterDeps(d) \ BeforeDeps(d)
        /\ d.removed_deps = BeforeDeps(d) \ AfterDeps(d)
        /\ d.new_deps \cap d.removed_deps = {}
        /\ d.status = StatusA => d.removed_deps = {}
        /\ d.status = StatusD => d.new_deps = {}

\* A Modified file that gains a name next to a Deleted file that loses one.
C1_Witness ==
  /\ Analyzed
  /\ \E pl \in DeltaPlaces :
       /\ DeltaAt(pl).status = StatusM
       /\ DeltaAt(pl).new_deps # {}
       /\ BeforeDeps(DeltaAt(pl)) # {}
  /\ \E pl \in DeltaPlaces :
       /\ DeltaAt(pl).status = StatusD
       /\ DeltaAt(pl).removed_deps # {}

\* C2: in JSON mode every file entry of the document has a non-empty new_deps
\* or a non-empty removed_deps (files and languages that contribute no name
\* are left out).
C2_JsonOmitsEmptyEntries ==
  (pc = "done" /\ output_json) =>
    \A i \in DOMAIN result : \A j \in DOMAIN result[i].val :
      \/ result[i].val[j].val.new_deps # <<>>
      \/ result[i].val[j].val.removed_deps # <<>>

\* C3: with a branch argument given, a run never ends in an unhandled error,
\* whatever the diff output and the file contents, in text and in JSON mode.
C3_RunNeverCrashes ==
  pc # "crashed" /\ raised = "none"

\* The list without any '--json'.
Positional(list) == SelectSeq(list, LAMBDA x : x # "--json")

\* C4: '--json' at any position selects JSON mode and is not in the list the
\* branches are read from; of that list, no element gives the usage message
\* and exit code 1, one element the target branch (the base being the current
\* branch), two elements the target and the base.
C4_FlagRemovedBeforeBranches ==
  pc # "main" =>
    /\ output_json = ("--json" \in Range(argv))
    /\ "--json" \notin Range(args)
    /\ args = Positional(argv)
    /\ Len(args) = 0 => pc = "exit" /\ exit_code = 1 /\ base_branch = ""
    /\ Len(args) = 1 => target_branch = args[1] /\ base_branch \in CurrentBranches
    /\ Len(args) = 2 => target_branch = args[1] /\ base_branch = args[2]

\* The rename lines of the diff output that get_git_diff keeps.
KeptRenames ==
  SelectSeq(diff_output,
            LAMBDA l : /\ Head(l[1]) = "R"
                       /\ \E q \in AllPatterns : EndsWith(l[2], q) \/ EndsWith(l[3], q))

RenamedRecords == SelectSeq(changed_files, LAMBDA f : Head(f.status) = "R")

\* Every kept rename is a record with status 'R', its new and its old path.
RenamedRecordsPopulated ==
  /\ Len(RenamedRecords) = Len(KeptRenames)
  /\ \A i \in DOMAIN RenamedRecords :
       /\ RenamedRecords[i].status = StatusR
       /\ RenamedRecords[i].filename = KeptRenames[i][3]
       /\ RenamedRecords[i].old_filename = KeptRenames[i][2]

\* The content of the old path on the base branch is that of the new path on
\* the target branch.
SameContent(d) ==
  get_file_content(repo, d.old_filename, base_branch)
    = get_file_content(repo, d.filename, target_branch)

\* The branch of parse_dependencies a filename selects.
Shape(f) ==
  IF EndsWith(f, DotJson) THEN "json" ELSE IF EndsWith(f, DotTxt) THEN "txt" ELSE "none"

\* C5, as claimed: a kept rename whose content is the same at both ends has an
\* empty delta, and its record has status 'R' and both filenames.
C5_RenameSameContentEmptyDelta ==
  /\ RenamedRecordsPopulated
  /\ \A pl \in DeltaPlaces :
       (DeltaAt(pl).status = StatusR /\ SameContent(DeltaAt(pl))) =>
         DeltaAt(pl).new_deps = {} /\ DeltaAt(pl).removed_deps = {}

\* C5, amended: the same, for the renames whose old and new path select the
\* same branch of the parser (both .json, both .txt, or neither).
C5_RenameSameShapeEmptyDelta ==
  /\ RenamedRecordsPopulated
  /\ \A pl \in DeltaPlaces :
       ( /\ DeltaAt(pl).status = StatusR
         /\ SameContent(DeltaAt(pl))
         /\ Shape(DeltaAt(pl).old_filename) = Shape(DeltaAt(pl).filename) ) =>
         DeltaAt(pl).new_deps = {} /\ DeltaAt(pl).removed_deps = {}

\* old_requirements.txt renamed to requirements.txt with its content, which
\* declares a name.
C5_Witness ==
  /\ Analyzed
  /\ \E pl \in DeltaPlaces :
       /\ DeltaAt(pl).status = StatusR
       /\ DeltaAt(pl).old_filename = OldReq
       /\ DeltaAt(pl).filename = Req
       /\ SameContent(DeltaAt(pl))
       /\ AfterDeps(DeltaAt(pl)) # {}
       /\ DeltaAt(pl).new_deps = {}
       /\ DeltaAt(pl).removed_deps = {}

\* ---- text mode
RECURSIVE Ascending(_)
Ascending(S) == IF S = {} THEN <<>> ELSE <<Min(S)>> \o Ascending(S \ {Min(S)})

\* Text mode has printed its report: to the end, or up to an unhandled error.
TextRendered == pc \in {"done", "crashed"} /\ ~output_json /\ changed_files # <<>>
TextDone == TextRendered /\ pc = "done"

HeadIdx == { i \in DOMAIN stdout : stdout[i].t = "lang" }
FileIdx == { i \in DOMAIN stdout : stdout[i].t = "file" }

\* The first index after i that is in S, or the end of the output.
NextIn(S, i) == Min({ j \in S : j > i } \cup { Len(stdout) + 1 })

Tags == Range(DictKeys(changes_by_language))

\* The tag a heading line shows in upper case.
TagOf(h) == CHOOSE L \in Tags : L # None /\ Upper(L) = stdout[h].text

\* The file lines under heading h, in the order printed.
FilesUnder(h) == Ascending({ f \in FileIdx : h < f /\ f < NextIn(HeadIdx, h) })

Project(files) == [k \in DOMAIN files |-> <<files[k].status, files[k].filename>>]

StrictlySorted(names) ==
  \A a, b \in DOMAIN names : a < b => StrLess(names[a].dep, names[b].dep)

\* The lines under file line f are its added names, then its removed names,
\* each sorted and each under its header.
NamesUnder(f, d) ==
  LET seg == SubSeq(stdout, f + 1, NextIn(HeadIdx \cup FileIdx, f) - 1)
      plus == SelectSeq(seg, LAMBDA l : l.t = "plus")
      minus == SelectSeq(seg, LAMBDA l : l.t = "minus")
  IN  /\ { plus[a].dep : a \in DOMAIN plus } = d.new_deps
      /\ { minus[a].dep : a \in DOMAIN minus } = d.removed_deps
      /\ StrictlySorted(plus) /\ StrictlySorted(minus)
      /\ seg = (IF plus # <<>> THEN <<[t |-> "new_header"]>> ELSE <<>>) \o plus
                 \o (IF minus # <<>> THEN <<[t |-> "removed_header"]>> ELSE <<>>)
                 \o minus

\* C9: in text mode the languages are printed in sorted order of their tag, a
\* language with no collected file prints nothing, the files of a language are
\* printed in the order they were discovered (the sequence collected for a
\* language is the changed-file list restricted to it), and under each file
\* come the added then the removed names, each sorted. The order holds of
\* whatever a run printed; that every collected language is printed holds of
\* the runs that reach their end.
C9_TextOrder ==
  /\ Analyzed =>
       \A i \in DOMAIN changes_by_language :
         Project(changes_by_language[i].val)
           = Project(SelectSeq(changed_files,
               LAMBDA f : /\ f.language = changes_by_language[i].key
                          /\ f.status \in {StatusA, StatusD, StatusM, StatusR}))
  /\ TextDone =>
       \A L \in Tags :
         DictGet(changes_by_language, L) # <<>> =>
           \E h \in HeadIdx : stdout[h].text = Upper(L)
  /\ TextRendered =>
       /\ \A h \in HeadIdx :
            \E L \in Tags : /\ L # None
                            /\ Upper(L) = stdout[h].text
                            /\ DictGet(changes_by_language, L) # <<>>
       /\ \A h1, h2 \in HeadIdx : h1 < h2 => StrLess(TagOf(h1), TagOf(h2))
       /\ \A h \in HeadIdx :
            LET bucket == DictGet(changes_by_language, TagOf(h))
                fs == FilesUnder(h)
            IN  /\ Project([k \in DOMAIN fs |-> stdout[fs[k]]]) = Project(bucket)
                /\ \A k \in DOMAIN fs : NamesUnder(fs[k], bucket[k])

\* Two languages discovered in the order python, javascript and printed in
\* the order JAVASCRIPT, PYTHON, with two sorted names under a file.
C9_Witness ==
  /\ TextDone
  /\ Cardinality(HeadIdx) = 2
  /\ StrLess(changes_by_language[2].key, changes_by_language[1].key)
  /\ \E i \in DOMAIN stdout : i > 1 /\ stdout[i].t = "plus" /\ stdout[i - 1].t = "plus"

\* C10: every changed-file record, whatever its status, has exactly one delta
\* under its language: there are as many deltas as records, and a non-empty
\* changed-file list gives a report that names a file.
C10_OneDeltaPerRecord ==
  Analyzed =>
    /\ Cardinality(DeltaPlaces) = Len(changed_files)
    /\ \A i \in DOMAIN changes_by_language :
         Len(changes_by_language[i].val)
           = Len(SelectSeq(changed_files,
                           LAMBDA f : f.language = changes_by_language[i].key))
    /\ DeltaPlaces # {}

====
